---- MODULE Spec2Model ----
(***************************************************************************)
(* Model of the Magiofiles grouping engine (src/src/main.ts): the tag      *)
(* matcher, the per-level split of the "By Tags" tree, the "By Folder"     *)
(* trie and the file counter, driven by MagiofilesView.renderTree; the     *)
(* tag normalizer, the per-file tag collector and the sibling sort, each   *)
(* called on its own; and the saved views with the handlers that add,      *)
(* delete, rename and switch them, each followed by a render pass.         *)
(*                                                                         *)
(* A JavaScript string is modelled as a sequence of one-character strings, *)
(* so that startsWith, slice and split are computed character by           *)
(* character.  A GroupNode tree is modelled as a function from node paths  *)
(* (the sequence of Map keys leading from the root to the node) to the     *)
(* node's own fields; the children Map of a node is the set of paths one   *)
(* key longer.                                                             *)
(***************************************************************************)
EXTENDS Integers, Sequences, FiniteSets, TLC

VARIABLES
    allFiles,    \* app.vault.getFiles(): the files of the vault (each file is its path)
    mdFiles,     \* app.vault.getMarkdownFiles(): the markdown files among them
    tagCache,    \* per markdown file, the tag set collectTagsForFile yields for it
    levels,      \* cfg.levels of the active view: a sequence of [name, tags]
    pc,          \* position of renderTree
    fileTags,    \* renderTree's local Map fileTags
    matched,     \* renderTree's local Set matched
    tagsRoot,    \* renderTree's local tree tagsRoot
    folderRoot,  \* renderTree's local tree folderRoot
    lv,          \* renderTree's loop counter over cfg.levels
    pending,     \* files of allFiles the folder loop has not visited yet
    call,        \* one call of a pure function: its arguments and its result
    history,     \* the trees of the render passes completed so far, in order
    settings,    \* plugin.settings: views and activeViewId
    now,         \* the last value Date.now() returned
    notice       \* the text of the last Notice shown, "" before the first

vars == <<allFiles, mdFiles, tagCache, levels, pc, fileTags, matched,
          tagsRoot, folderRoot, lv, pending, call, history, settings, now,
          notice>>

viewVars == <<settings, now, notice>>

buildVars == <<allFiles, mdFiles, tagCache, levels, pc, fileTags, matched,
               tagsRoot, folderRoot, lv, pending>>

--------------------------------------------------------------------------
(* Bounds of the model *)

MaxFiles == 2

MaxLevels == 2

--------------------------------------------------------------------------
(* Strings used by the inputs *)

TagA == <<"#", "a">>

TagAB == <<"#", "a", "/", "b">>

TagB == <<"#", "b">>

TagOthers == <<"#", "O", "t", "h", "e", "r", "s">>

TagASlash == <<"#", "a", "/">>

TagAb == <<"#", "a", "b">>

TagUpperA == <<"#", "A">>

PathN == <<"n">>

PathDM == <<"d", "/", "m">>

PathDEK == <<"d", "/", "e", "/", "k">>

PathX == <<"x">>

\* The vault: four files, two of them markdown documents.
FileUniverse == {PathN, PathDM, PathDEK, PathX}

MarkdownUniverse == {PathN, PathDM}

\* Tag sets a markdown file may carry.
TagSetUniverse ==
    { {}, {TagA}, {TagAB}, {TagB}, {TagAB, TagB}, {TagOthers}, {TagB, TagOthers} }

\* Pattern lists a level may carry (level.tags, already normalized).
LevelUniverse ==
    { [name |-> "Empty", tags |-> << >>],
      [name |-> "A", tags |-> <<TagA>>],
      [name |-> "B", tags |-> <<TagB>>],
      [name |-> "AB", tags |-> <<TagA, TagB>>],
      [name |-> "BA", tags |-> <<TagB, TagA>>],
      [name |-> "Others", tags |-> <<TagOthers>>],
      [name |-> "AB or A", tags |-> <<TagAB, TagA>>] }

RECURSIVE SeqsUpTo(_, _)
SeqsUpTo(S, n) ==
    IF n = 0 THEN { << >> }
    ELSE LET shorter == SeqsUpTo(S, n - 1)
         IN shorter \cup { Append(s, x) : s \in shorter, x \in S }

--------------------------------------------------------------------------
(* Pure helpers of main.ts *)

\* String.prototype.startsWith
StartsWith(t, pre) ==
    Len(pre) <= Len(t) /\ SubSeq(t, 1, Len(pre)) = pre

\* string | null: null is the empty tuple, a string w is the one-tuple <<w>>
Null == << >>

\* JavaScript truthiness of a string | null value
Truthy(m) == m # Null /\ m[1] # << >>

stripHash(tag) ==
    IF StartsWith(tag, <<"#">>) THEN SubSeq(tag, 2, Len(tag)) ELSE tag

\* a startsWith that forgets the separator
TagHits_NoSeparator(t, w) == t = w \/ StartsWith(t, w)

\* the test of tagMatchesAny's inner loop
TagHits(t, w) == t = w \/ StartsWith(t, w \o <<"/">>)

\* returns the last matching pattern instead of the first
tagMatchesAny_Last(tagSet, wanted) ==
    LET hits == { i \in 1..Len(wanted) : \E t \in tagSet : TagHits(t, wanted[i]) }
    IN IF hits = {} THEN Null
       ELSE <<wanted[CHOOSE i \in hits : \A j \in hits : j <= i]>>

tagMatchesAny(tagSet, wanted) ==
    LET hits == { i \in 1..Len(wanted) : \E t \in tagSet : TagHits(t, wanted[i]) }
    IN IF hits = {} THEN Null
       ELSE <<wanted[CHOOSE i \in hits : \A j \in hits : i <= j]>>

--------------------------------------------------------------------------
(* normalizeTag, parseTagsInput *)

\* the white space String.prototype.trim removes, among the characters used
IsSpace(c) == c \in {" ", "\t"}

RECURSIVE trimStart(_)
trimStart(s) ==
    IF s # << >> /\ IsSpace(s[1]) THEN trimStart(Tail(s)) ELSE s

RECURSIVE trimEnd(_)
trimEnd(s) ==
    IF s # << >> /\ IsSpace(s[Len(s)]) THEN trimEnd(SubSeq(s, 1, Len(s) - 1)) ELSE s

\* String.prototype.trim
trim(s) == trimEnd(trimStart(s))

\* normalizeTag with the prefix added whatever the string starts with
normalizeTag_AlwaysPrefix(tag) ==
    LET t == trim(tag)
    IN IF t = << >> THEN << >> ELSE <<"#">> \o t

normalizeTag(tag) ==
    LET t == trim(tag)
    IN IF t = << >> THEN << >>
       ELSE IF StartsWith(t, <<"#">>) THEN t ELSE <<"#">> \o t

\* String.prototype.split(",")
RECURSIVE splitComma(_)
splitComma(s) ==
    IF \E i \in 1..Len(s) : s[i] = ","
    THEN LET i == CHOOSE i \in 1..Len(s) : s[i] = "," /\ \A j \in 1..(i - 1) : s[j] # ","
         IN << SubSeq(s, 1, i - 1) >> \o splitComma(SubSeq(s, i + 1, Len(s)))
    ELSE << s >>

\* Array.prototype.filter((s) => !!s)
RECURSIVE dropEmpty(_)
dropEmpty(a) ==
    IF a = << >> THEN << >>
    ELSE IF a[1] = << >> THEN dropEmpty(Tail(a))
    ELSE << a[1] >> \o dropEmpty(Tail(a))

parseTagsInput(input) ==
    LET parts == splitComma(input)
    IN dropEmpty([i \in 1..Len(parts) |-> normalizeTag(parts[i])])

--------------------------------------------------------------------------

(* collectTagsForFile *)

\* JavaScript values as they come out of the metadata cache: a kind and a payload
JsUndefined == [t |-> "undefined", v |-> << >>]

JsNull == [t |-> "null", v |-> << >>]

JsObject == [t |-> "object", v |-> << >>]

JsString(s) == [t |-> "string", v |-> s]

JsNumber(n) == [t |-> "number", v |-> << n >>]

JsArray(a) == [t |-> "array", v |-> a]

Digits == <<"0", "1", "2", "3", "4", "5", "6", "7", "8", "9">>

\* String(n) for a natural number
RECURSIVE NumberToString(_)
NumberToString(n) ==
    IF n < 10 THEN << Digits[n + 1] >>
    ELSE NumberToString(n \div 10) \o << Digits[(n % 10) + 1] >>

\* String(x)
JsToString(x) ==
    CASE x.t = "string" -> x.v
      [] x.t = "number" -> NumberToString(x.v[1])
      [] x.t = "null" -> <<"n", "u", "l", "l">>
      [] x.t = "undefined" -> <<"u", "n", "d", "e", "f", "i", "n", "e", "d">>
      [] x.t = "object" ->
           <<"[", "o", "b", "j", "e", "c", "t", " ", "O", "b", "j", "e", "c", "t", "]">>
      [] x.t = "array" -> << >>

\* cache?.tags ?? [], as the sequence of the t.tag strings
inlineTags(cache) == IF cache.tags.t = "array" THEN cache.tags.v ELSE << >>

\* cache?.frontmatter?.tags
frontmatterTags(cache) ==
    IF cache.frontmatter.present THEN cache.frontmatter.tags ELSE JsUndefined

\* collectTagsForFile with every defined tags field put through String()
collectTagsForFile_StringifyAll(cache) ==
    LET inline == inlineTags(cache)
        fmTags == frontmatterTags(cache)
    IN { inline[i] : i \in 1..Len(inline) }
       \cup ( IF fmTags.t = "array"
              THEN { normalizeTag(JsToString(fmTags.v[i])) : i \in 1..Len(fmTags.v) }
              ELSE IF fmTags.t # "undefined" THEN { normalizeTag(JsToString(fmTags)) }
              ELSE {} )

\* collectTagsForFile, given what getFileCache(file) returned; a null cache
\* reads like a cache without tags and without frontmatter
collectTagsForFile(cache) ==
    LET inline == inlineTags(cache)
        fmTags == frontmatterTags(cache)
    IN { inline[i] : i \in 1..Len(inline) }
       \cup ( IF fmTags.t = "string" THEN { normalizeTag(fmTags.v) }
              ELSE IF fmTags.t = "array"
              THEN { normalizeTag(JsToString(fmTags.v[i])) : i \in 1..Len(fmTags.v) }
              ELSE {} )

--------------------------------------------------------------------------

(* GroupNode trees *)

\* the key "Others" of the catch-all bucket
OthersKey == <<"O", "t", "h", "e", "r", "s">>

RootName == <<"r", "o", "o", "t">>

\* no tree: renderTree has not constructed it
NoTree == << >>

\* a root that is the root object of the previous pass's By Tags tree, when
\* there is one, instead of a new object
RootNode_Shared(files) ==
    IF history # << >> /\ history[Len(history)].tags # NoTree
    THEN [history[Len(history)].tags EXCEPT ![<< >>].files = @ \cup files]
    ELSE [q \in { << >> } |-> [name |-> RootName, level |-> -1, files |-> files]]

\* { name: "root", level: -1, files, children: new Map() }
RootNode(files) ==
    [q \in { << >> } |-> [name |-> RootName, level |-> -1, files |-> files]]

Parent(q) == SubSeq(q, 1, Len(q) - 1)

\* node.children.values(), as node paths
Children(tree, p) ==
    { q \in DOMAIN tree : Len(q) = Len(p) + 1 /\ SubSeq(q, 1, Len(p)) = p }

\* select files matching the first level only
selectMatched_FirstLevel(md, tags, lvls) ==
    { f \in md : Len(lvls) > 0 /\ Truthy(tagMatchesAny(tags[f], lvls[1].tags)) }

\* the loop of renderTree that fills the Set matched
selectMatched(md, tags, lvls) ==
    { f \in md : \E i \in 1..Len(lvls) : Truthy(tagMatchesAny(tags[f], lvls[i].tags)) }

\* the key with the marker kept
bucketKey_KeepHash(tagSet, levelTags) ==
    LET match == tagMatchesAny(tagSet, levelTags)
    IN IF Truthy(match) THEN match[1] ELSE OthersKey

\* the Map key of the bucket a file of a split node goes to
bucketKey(tagSet, levelTags) ==
    LET match == tagMatchesAny(tagSet, levelTags)
    IN IF Truthy(match) THEN stripHash(match[1]) ELSE OthersKey

\* a traversal that stops at the root: only the root is ever split
SplitNodes_RootOnly(root) ==
    { p \in DOMAIN root : p = << >> /\ root[p].files # {} }

\* the nodes one propagateLevel call splits: those the traversal reaches
\* (every proper ancestor holds no files) that hold files
SplitNodes(root) ==
    { p \in DOMAIN root :
        /\ root[p].files # {}
        /\ \A k \in 0..(Len(p) - 1) : root[SubSeq(p, 1, k)].files = {} }

\* a split that leaves the files on the parent as well
propagateLevel_KeepParent(root, levelTags, tags, levelIdx) ==
    LET split == SplitNodes(root)
        keyOf(f) == bucketKey(tags[f], levelTags)
        made == UNION { { Append(p, keyOf(f)) : f \in root[p].files } : p \in split }
    IN [q \in DOMAIN root \cup made |->
          IF q \in made
          THEN LET got == { f \in root[Parent(q)].files : keyOf(f) = q[Len(q)] }
               IN IF q \in DOMAIN root
                  THEN [root[q] EXCEPT !.files = @ \cup got]
                  ELSE [name |-> q[Len(q)], level |-> levelIdx, files |-> got]
          ELSE root[q]]

\* a split that loses the files no pattern matches
propagateLevel_DropRemaining(root, levelTags, tags, levelIdx) ==
    LET split == SplitNodes(root)
        hit(f) == Truthy(tagMatchesAny(tags[f], levelTags))
        keyOf(f) == bucketKey(tags[f], levelTags)
        made == UNION { { Append(p, keyOf(f)) : f \in { g \in root[p].files : hit(g) } } :
                        p \in split }
    IN [q \in DOMAIN root \cup made |->
          IF q \in made
          THEN LET got == { f \in root[Parent(q)].files : hit(f) /\ keyOf(f) = q[Len(q)] }
               IN IF q \in DOMAIN root
                  THEN [root[q] EXCEPT !.files = @ \cup got]
                  ELSE [name |-> q[Len(q)], level |-> levelIdx, files |-> got]
          ELSE IF q \in split
          THEN [root[q] EXCEPT !.files = {}]
          ELSE root[q]]

\* a split that also makes a bucket for every pattern of the level, filled or not
propagateLevel_Speculative(root, levelTags, tags, levelIdx) ==
    LET split == SplitNodes(root)
        keyOf(f) == bucketKey(tags[f], levelTags)
        made == UNION { { Append(p, keyOf(f)) : f \in root[p].files }
                        \cup { Append(p, stripHash(levelTags[k])) : k \in 1..Len(levelTags) } :
                        p \in split }
    IN [q \in DOMAIN root \cup made |->
          IF q \in made
          THEN LET got == { f \in root[Parent(q)].files : keyOf(f) = q[Len(q)] }
               IN IF q \in DOMAIN root
                  THEN [root[q] EXCEPT !.files = @ \cup got]
                  ELSE [name |-> q[Len(q)], level |-> levelIdx, files |-> got]
          ELSE IF q \in split
          THEN [root[q] EXCEPT !.files = {}]
          ELSE root[q]]

propagateLevel(root, levelTags, tags, levelIdx) ==
    LET split == SplitNodes(root)
        keyOf(f) == bucketKey(tags[f], levelTags)
        made == UNION { { Append(p, keyOf(f)) : f \in root[p].files } : p \in split }
    IN [q \in DOMAIN root \cup made |->
          IF q \in made
          THEN LET got == { f \in root[Parent(q)].files : keyOf(f) = q[Len(q)] }
               IN IF q \in DOMAIN root
                  THEN [root[q] EXCEPT !.files = @ \cup got]
                  ELSE [name |-> q[Len(q)], level |-> levelIdx, files |-> got]
          ELSE IF q \in split
          THEN [root[q] EXCEPT !.files = {}]
          ELSE root[q]]

\* counts the node's own files only
countFiles_OwnOnly(tree, p) == Cardinality(tree[p].files)

RECURSIVE countFiles(_, _), sumCounts(_, _)
countFiles(tree, p) ==
    Cardinality(tree[p].files) + sumCounts(tree, Children(tree, p))

sumCounts(tree, kids) ==
    IF kids = {} THEN 0
    ELSE LET c == CHOOSE c \in kids : TRUE
         IN countFiles(tree, c) + sumCounts(tree, kids \ {c})

\* String.prototype.split("/")
RECURSIVE splitPath(_)
splitPath(s) ==
    IF \A i \in 1..Len(s) : s[i] # "/" THEN <<s>>
    ELSE LET i == CHOOSE i \in 1..Len(s) :
                      s[i] = "/" /\ \A j \in 1..(i - 1) : s[j] # "/"
         IN <<SubSeq(s, 1, i - 1)>> \o splitPath(SubSeq(s, i + 1, Len(s)))

\* level of a folder node: (node.level ?? -1) + 1 of the node above it
RECURSIVE folderLevel(_, _)
folderLevel(root, q) ==
    IF q \in DOMAIN root THEN root[q].level ELSE folderLevel(root, Parent(q)) + 1

\* keeps the file name as a folder segment
addFileToFolderTree_NoPop(root, fullPath, file) ==
    LET dirs == splitPath(fullPath)
        walked == { SubSeq(dirs, 1, k) : k \in 0..Len(dirs) }
    IN [q \in DOMAIN root \cup walked |->
          LET node == IF q \in DOMAIN root THEN root[q]
                      ELSE [name |-> q[Len(q)], level |-> folderLevel(root, q),
                            files |-> {}]
          IN IF q = dirs THEN [node EXCEPT !.files = @ \cup {file}] ELSE node]

addFileToFolderTree(root, fullPath, file) ==
    LET parts == splitPath(fullPath)
        dirs == SubSeq(parts, 1, Len(parts) - 1)
        walked == { SubSeq(dirs, 1, k) : k \in 0..Len(dirs) }
    IN [q \in DOMAIN root \cup walked |->
          LET node == IF q \in DOMAIN root THEN root[q]
                      ELSE [name |-> q[Len(q)], level |-> folderLevel(root, q),
                            files |-> {}]
          IN IF q = dirs THEN [node EXCEPT !.files = @ \cup {file}] ELSE node]

\* the folder loop without its "no duplicates" test
skipInFolderTree_Never(f, m) == FALSE

\* the test "if (matched.has(f)) continue" of the folder loop
skipInFolderTree(f, m) == f \in m

--------------------------------------------------------------------------
(* getSortedEntries *)

\* the collation of String.prototype.localeCompare on the letters used here:
\* letters differ first by base letter, and only then by case, lower case first
CollationBase(c) == IF c \in {"a", "A"} THEN 1 ELSE 2

CollationCase(c) == IF c \in {"A", "B"} THEN 1 ELSE 0

\* comparison of two key sequences, shorter prefix first: -1, 0 or 1
RECURSIVE CompareKeys(_, _)
CompareKeys(x, y) ==
    IF x = << >> /\ y = << >> THEN 0
    ELSE IF x = << >> THEN -1
    ELSE IF y = << >> THEN 1
    ELSE IF x[1] < y[1] THEN -1
    ELSE IF x[1] > y[1] THEN 1
    ELSE CompareKeys(Tail(x), Tail(y))

\* a.localeCompare(b)
localeCompare(a, b) ==
    LET base == CompareKeys([i \in 1..Len(a) |-> CollationBase(a[i])],
                            [i \in 1..Len(b) |-> CollationBase(b[i])])
    IN IF base # 0 THEN base
       ELSE CompareKeys([i \in 1..Len(a) |-> CollationCase(a[i])],
                        [i \in 1..Len(b) |-> CollationCase(b[i])])

\* the comparator of mode "count" without its label tie-break
compareEntries_NoTieBreak(mode, a, b) ==
    IF mode = "count"
    THEN countFiles(b[2], << >>) - countFiles(a[2], << >>)
    ELSE IF mode = "alpha-desc" THEN localeCompare(b[1], a[1])
    ELSE localeCompare(a[1], b[1])

\* the comparator getSortedEntries hands to Array.prototype.sort for a mode;
\* an entry is <<label, child>> and the child is a tree of its own
compareEntries(mode, a, b) ==
    IF mode = "count"
    THEN LET ca == countFiles(a[2], << >>)
             cb == countFiles(b[2], << >>)
         IN IF cb # ca THEN cb - ca ELSE localeCompare(a[1], b[1])
    ELSE IF mode = "alpha-desc" THEN localeCompare(b[1], a[1])
    ELSE localeCompare(a[1], b[1])

\* Array.prototype.sort: a stable sort, here by insertion; e goes behind every
\* element that does not compare greater than it
RECURSIVE insertEntry(_, _, _)
insertEntry(mode, sorted, e) ==
    IF sorted = << >> THEN << e >>
    ELSE IF compareEntries(mode, sorted[1], e) > 0 THEN << e >> \o sorted
    ELSE << sorted[1] >> \o insertEntry(mode, Tail(sorted), e)

RECURSIVE sortEntries(_, _)
sortEntries(mode, arr) ==
    IF arr = << >> THEN << >>
    ELSE insertEntry(mode, sortEntries(mode, SubSeq(arr, 1, Len(arr) - 1)), arr[Len(arr)])

\* map is [...map.entries()]: the entries in insertion order, labels distinct
getSortedEntries(map, mode) == sortEntries(mode, map)

--------------------------------------------------------------------------

(* renderTree, step by step *)

\* the name "Default" of the view the plugin starts with
DefaultName == <<"D", "e", "f", "a", "u", "l", "t">>

\* the id of the view the plugin starts with
DefaultId == <<"default">>

\* the id `view-${Date.now()}` of a view added at time t
ViewId(t) == <<"view-", t>>

\* DEFAULT_SETTINGS, as far as the views go.  A view's levels array is an
\* object: levelsObj is its identity, and two views with the same levelsObj
\* hold one and the same array.
DEFAULT_SETTINGS ==
    [views |-> << [id |-> DefaultId, name |-> DefaultName, levels |-> << >>,
                   levelsObj |-> 0] >>,
     activeViewId |-> DefaultId]

\* the default settings after the levels of the default view were edited to ls
SettingsOf(ls) ==
    [DEFAULT_SETTINGS EXCEPT !.views[1].levels = ls]

\* the position of the view plugin.getActiveViewCfg() returns: the first
\* view with the active id, else the first view
activeIndex(s) ==
    LET hits == { i \in 1..Len(s.views) : s.views[i].id = s.activeViewId }
    IN IF hits # {} THEN CHOOSE i \in hits : \A j \in hits : i <= j
       ELSE 1

\* plugin.getActiveViewCfg()
getActiveViewCfg(s) == s.views[activeIndex(s)]

\* the number of render passes whose trees are kept for comparison
MaxBuilds == 3

\* what a completed render pass was given and what it built
BuildRecord ==
    [files |-> allFiles, cache |-> tagCache, levels |-> levels,
     tags |-> tagsRoot, folder |-> folderRoot]

\* the passes kept so far and the one just completed
RecordBuild(h) == IF Len(h) < MaxBuilds THEN Append(h, BuildRecord) ELSE h

IdleCall == [state |-> "off", tagSet |-> {}, wanted |-> << >>, result |-> Null]

Init ==
    /\ allFiles \in { S \in SUBSET FileUniverse : Cardinality(S) <= MaxFiles }
    /\ mdFiles = allFiles \cap MarkdownUniverse
    /\ tagCache \in [mdFiles -> TagSetUniverse]
    /\ levels \in SeqsUpTo(LevelUniverse, MaxLevels)
    /\ pc = "idle"
    /\ fileTags = << >>
    /\ matched = {}
    /\ tagsRoot = NoTree
    /\ folderRoot = NoTree
    /\ lv = 0
    /\ pending = {}
    /\ call = IdleCall
    /\ history = << >>
    /\ settings = SettingsOf(levels)
    /\ now = 0
    /\ notice = ""

\* an empty vault answered with two empty trees instead of the early return
RenderTreeNoFiles_BuildsEmpty ==
    /\ pc = "idle"
    /\ allFiles = {}
    /\ tagsRoot' = RootNode({})
    /\ folderRoot' = RootNode({})
    /\ pc' = "done"
    /\ UNCHANGED <<allFiles, mdFiles, tagCache, levels, fileTags, matched,
                   lv, pending, call, history, viewVars>>

\* if (!allFiles.length) { ...; return; }
RenderTreeNoFiles ==
    /\ pc = "idle"
    /\ allFiles = {}
    /\ pc' = "nofiles"
    /\ history' = RecordBuild(history)
    /\ UNCHANGED <<allFiles, mdFiles, tagCache, levels, fileTags, matched,
                   tagsRoot, folderRoot, lv, pending, call, viewVars>>

\* fileTags, matched and the root of the By Tags tree
RenderTreeBegin ==
    /\ pc = "idle"
    /\ allFiles # {}
    /\ fileTags' = [f \in mdFiles |-> tagCache[f]]
    /\ matched' = selectMatched(mdFiles, fileTags', levels)
    /\ tagsRoot' = RootNode(matched')
    /\ lv' = 0
    /\ pc' = "levels"
    /\ UNCHANGED <<allFiles, mdFiles, tagCache, levels, folderRoot, pending, call,
                   history, viewVars>>

\* one iteration of: for (lv ...) propagateLevel(tagsRoot, levelCfg.tags, fileTags, lv)
RenderTreeLevel ==
    /\ pc = "levels"
    /\ lv < Len(levels)
    /\ tagsRoot' = propagateLevel(tagsRoot, levels[lv + 1].tags, fileTags, lv)
    /\ lv' = lv + 1
    /\ UNCHANGED <<allFiles, mdFiles, tagCache, levels, pc, fileTags, matched,
                   folderRoot, pending, call, history, viewVars>>

\* the root of the By Folder tree
RenderTreeFolderBegin ==
    /\ pc = "levels"
    /\ lv = Len(levels)
    /\ folderRoot' = RootNode({})
    /\ pending' = allFiles
    /\ pc' = "folder"
    /\ UNCHANGED <<allFiles, mdFiles, tagCache, levels, fileTags, matched,
                   tagsRoot, lv, call, history, viewVars>>

\* one iteration of: for (const f of allFiles), in the order the vault lists them
RenderTreeFolderFile ==
    /\ pc = "folder"
    /\ \E f \in pending :
          /\ pending' = pending \ {f}
          /\ folderRoot' = IF skipInFolderTree(f, matched) THEN folderRoot
                           ELSE addFileToFolderTree(folderRoot, f, f)
    /\ UNCHANGED <<allFiles, mdFiles, tagCache, levels, pc, fileTags, matched,
                   tagsRoot, lv, call, history, viewVars>>

\* both trees are built
RenderTreeBuilt ==
    /\ pc = "folder"
    /\ pending = {}
    /\ pc' = "done"
    /\ history' = RecordBuild(history)
    /\ UNCHANGED <<allFiles, mdFiles, tagCache, levels, fileTags, matched,
                   tagsRoot, folderRoot, lv, pending, call, viewVars>>

Next ==
    \/ RenderTreeNoFiles
    \/ RenderTreeBegin
    \/ RenderTreeLevel
    \/ RenderTreeFolderBegin
    \/ RenderTreeFolderFile
    \/ RenderTreeBuilt

Spec == Init /\ [][Next]_vars

--------------------------------------------------------------------------
(* tagMatchesAny on its own: one call with arguments drawn from small sets *)

MaxWanted == 2

MatchTagUniverse == {TagA, TagAB, TagASlash, TagAb, TagUpperA, TagB}

MatchPatternUniverse == {TagA, TagB, TagUpperA, TagAB}

InitMatch ==
    /\ call \in [state : {"ready"}, tagSet : SUBSET MatchTagUniverse,
                 wanted : SeqsUpTo(MatchPatternUniverse, MaxWanted), result : {Null}]
    /\ allFiles = {}
    /\ mdFiles = {}
    /\ tagCache = << >>
    /\ levels = << >>
    /\ pc = "off"
    /\ fileTags = << >>
    /\ matched = {}
    /\ tagsRoot = NoTree
    /\ folderRoot = NoTree
    /\ lv = 0
    /\ pending = {}
    /\ history = << >>
    /\ settings = DEFAULT_SETTINGS
    /\ now = 0
    /\ notice = ""

CallTagMatchesAny ==
    /\ call.state = "ready"
    /\ call' = [call EXCEPT !.state = "returned",
                            !.result = tagMatchesAny(call.tagSet, call.wanted)]
    /\ UNCHANGED <<buildVars, history, viewVars>>

NextMatch == CallTagMatchesAny

SpecMatch == InitMatch /\ [][NextMatch]_vars

--------------------------------------------------------------------------
(* getSortedEntries on its own: one call on a children Map *)

MaxEntries == 3

LabelUniverse == { <<"a">>, <<"A">>, <<"b">>, <<"a", "b">>, <<"A", "a">> }

\* a bucket of the given name holding the given files itself
LeafNode(name, files) ==
    [q \in { << >> } |-> [name |-> name, level |-> 0, files |-> files]]

\* a child that holds no file itself and two files below it
NestedNode ==
    [q \in { << >>, << <<"b">> >> } |->
        IF q = << >> THEN [name |-> <<"a">>, level |-> 0, files |-> {}]
        ELSE [name |-> <<"b">>, level |-> 1, files |-> {PathDM, PathX}]]

ChildUniverse == { LeafNode(<<"a">>, {PathN}), LeafNode(<<"a">>, {PathN, PathDM}), NestedNode }

SortModes == {"alpha", "alpha-desc", "count"}

InitSort ==
    /\ call \in [state : {"ready"},
                 map : { m \in SeqsUpTo(LabelUniverse \X ChildUniverse, MaxEntries) :
                            \A i, j \in 1..Len(m) : m[i][1] = m[j][1] => i = j },
                 mode : SortModes,
                 result : {<< >>}]
    /\ allFiles = {}
    /\ mdFiles = {}
    /\ tagCache = << >>
    /\ levels = << >>
    /\ pc = "off"
    /\ fileTags = << >>
    /\ matched = {}
    /\ tagsRoot = NoTree
    /\ folderRoot = NoTree
    /\ lv = 0
    /\ pending = {}
    /\ history = << >>
    /\ settings = DEFAULT_SETTINGS
    /\ now = 0
    /\ notice = ""

CallGetSortedEntries ==
    /\ call.state = "ready"
    /\ call' = [call EXCEPT !.state = "sorted",
                            !.result = getSortedEntries(call.map, call.mode)]
    /\ UNCHANGED <<buildVars, history, viewVars>>

NextSort == CallGetSortedEntries

SpecSort == InitSort /\ [][NextSort]_vars

--------------------------------------------------------------------------

(* normalizeTag on its own: applied once and again to a short string *)

MaxStrLen == 3

CharUniverse == {" ", "\t", "#", "a", ","}

InitNormalize ==
    /\ call \in [state : {"ready"},
                 input : SeqsUpTo(CharUniverse, MaxStrLen),
                 once : {<< >>},
                 twice : {<< >>},
                 parsed : {<< >>}]
    /\ allFiles = {}
    /\ mdFiles = {}
    /\ tagCache = << >>
    /\ levels = << >>
    /\ pc = "off"
    /\ fileTags = << >>
    /\ matched = {}
    /\ tagsRoot = NoTree
    /\ folderRoot = NoTree
    /\ lv = 0
    /\ pending = {}
    /\ history = << >>
    /\ settings = DEFAULT_SETTINGS
    /\ now = 0
    /\ notice = ""

CallNormalizeTag ==
    /\ call.state = "ready"
    /\ call' = [call EXCEPT !.state = "normalized", !.once = normalizeTag(call.input)]
    /\ UNCHANGED <<buildVars, history, viewVars>>

CallNormalizeTagAgain ==
    /\ call.state = "normalized"
    /\ call' = [call EXCEPT !.state = "renormalized", !.twice = normalizeTag(call.once)]
    /\ UNCHANGED <<buildVars, history, viewVars>>

CallParseTagsInput ==
    /\ call.state = "ready"
    /\ call' = [call EXCEPT !.state = "parsed", !.parsed = parseTagsInput(call.input)]
    /\ UNCHANGED <<buildVars, history, viewVars>>

NextNormalize == CallNormalizeTag \/ CallNormalizeTagAgain \/ CallParseTagsInput

SpecNormalize == InitNormalize /\ [][NextNormalize]_vars

--------------------------------------------------------------------------

(* Render passes in a row: the view menu switches between two views and    *)
(* saveSettings renders again, on an unchanged vault                        *)

RebuildFileUniverse == {PathN, PathDM, PathX}

RebuildTagSetUniverse == { {}, {TagB}, {TagAB, TagB} }

LevelA == [name |-> "A", tags |-> <<TagA>>]

LevelB == [name |-> "B", tags |-> <<TagB>>]

LevelABorA == [name |-> "AB or A", tags |-> <<TagAB, TagA>>]

\* the level lists of the two views
ViewLevelsUniverse ==
    { << >>, <<LevelA>>, <<LevelA, LevelB>>, <<LevelB, LevelA>>,
      <<LevelABorA, LevelB>>, <<LevelB, LevelABorA>> }

SecondId == ViewId(1)

InitRebuild ==
    /\ allFiles \in SUBSET RebuildFileUniverse
    /\ mdFiles = allFiles \cap MarkdownUniverse
    /\ tagCache \in [mdFiles -> RebuildTagSetUniverse]
    /\ \E l1, l2 \in ViewLevelsUniverse :
          settings = [views |-> << [id |-> DefaultId, name |-> DefaultName, levels |-> l1,
                                    levelsObj |-> 0],
                                   [id |-> SecondId, name |-> <<"V">>, levels |-> l2,
                                    levelsObj |-> 1] >>,
                      activeViewId |-> DefaultId]
    /\ levels = getActiveViewCfg(settings).levels
    /\ pc = "idle"
    /\ fileTags = << >>
    /\ matched = {}
    /\ tagsRoot = NoTree
    /\ folderRoot = NoTree
    /\ lv = 0
    /\ pending = {}
    /\ call = IdleCall
    /\ history = << >>
    /\ now = 1
    /\ notice = ""

\* saveSettings: every open view renders, which enters renderTree with the
\* levels of the view that is active in the settings just written
SaveSettings ==
    /\ levels' = getActiveViewCfg(settings').levels
    /\ pc' = "idle"
    /\ fileTags' = << >>
    /\ matched' = {}
    /\ tagsRoot' = NoTree
    /\ folderRoot' = NoTree
    /\ lv' = 0
    /\ pending' = {}
    /\ UNCHANGED <<allFiles, mdFiles, tagCache, call, history>>

\* the view menu's onClick: activeViewId = v.id, then saveSettings
SwitchView ==
    /\ pc \in {"done", "nofiles"}
    /\ settings.views # << >>
    /\ \E i \in 1..Len(settings.views) :
          settings' = [settings EXCEPT !.activeViewId = settings.views[i].id]
    /\ SaveSettings
    /\ UNCHANGED <<now, notice>>

NextRebuild == Next \/ SwitchView

SpecRebuild == InitRebuild /\ [][NextRebuild]_vars

--------------------------------------------------------------------------

(* The saved views: Add View, Delete, Edit and the view menu, each followed *)
(* by saveSettings and a render pass                                        *)

MaxViews == 2

MaxClock == 2

\* what prompt() returns: null when cancelled, else the text typed
PromptUniverse == { Null, << <<" ">> >>, << <<" ", "V">> >> }

\* the test "name && name.trim()"
Accepted(m) == Truthy(m) /\ trim(m[1]) # << >>

\* the template string `Level ${n}`
LevelName(n) == "Level " \o ToString(n)

InitSettings ==
    /\ allFiles \in { {}, {PathN} }
    /\ mdFiles = allFiles \cap MarkdownUniverse
    /\ tagCache = [f \in mdFiles |-> {TagB}]
    /\ settings = DEFAULT_SETTINGS
    /\ levels = getActiveViewCfg(settings).levels
    /\ pc = "idle"
    /\ fileTags = << >>
    /\ matched = {}
    /\ tagsRoot = NoTree
    /\ folderRoot = NoTree
    /\ lv = 0
    /\ pending = {}
    /\ call = IdleCall
    /\ history = << >>
    /\ now = 0
    /\ notice = ""

\* an object identity no view's levels array has
freshObj(s) ==
    CHOOSE n \in 0..Len(s.views) : \A i \in 1..Len(s.views) : s.views[i].levelsObj # n

\* the settings after the levels array obj was changed in place to ls
writeLevels(s, obj, ls) ==
    [s EXCEPT !.views = [i \in 1..Len(@) |->
                            IF @[i].levelsObj = obj THEN [@[i] EXCEPT !.levels = ls] ELSE @[i]]]

\* addLevelBtn.onclick: a level without patterns is pushed on the active view
AddLevel ==
    /\ pc \in {"done", "nofiles"}
    /\ settings.views # << >>
    /\ Len(getActiveViewCfg(settings).levels) < MaxLevels
    /\ LET cfg == getActiveViewCfg(settings)
           grown == Append(cfg.levels, [name |-> LevelName(Len(cfg.levels) + 1), tags |-> << >>])
       IN settings' = writeLevels(settings, cfg.levelsObj, grown)
    /\ SaveSettings
    /\ UNCHANGED <<now, notice>>

\* The handlers of a level's row are followed while the render passes are
\* still being kept, which bounds the number of edits of a session.

\* delBtn.onclick of a level's row: cfg.levels.splice(idx, 1)
RemoveLevel ==
    /\ pc \in {"done", "nofiles"}
    /\ Len(history) < MaxBuilds
    /\ settings.views # << >>
    /\ \E idx \in 1..Len(getActiveViewCfg(settings).levels) :
          LET cfg == getActiveViewCfg(settings)
              spliced == SubSeq(cfg.levels, 1, idx - 1)
                         \o SubSeq(cfg.levels, idx + 1, Len(cfg.levels))
          IN settings' = writeLevels(settings, cfg.levelsObj, spliced)
    /\ SaveSettings
    /\ UNCHANGED <<now, notice>>

\* what can stand in a level's name input
NameInputUniverse == {"", "X"}

\* nameInput.onchange: level.name = nameInput.value || `Level ${idx + 1}`
EditLevelName ==
    /\ pc \in {"done", "nofiles"}
    /\ Len(history) < MaxBuilds
    /\ settings.views # << >>
    /\ \E idx \in 1..Len(getActiveViewCfg(settings).levels), value \in NameInputUniverse :
          LET cfg == getActiveViewCfg(settings)
              named == IF value # "" THEN value ELSE LevelName(idx)
          IN settings' = writeLevels(settings, cfg.levelsObj,
                                     [cfg.levels EXCEPT ![idx].name = named])
    /\ SaveSettings
    /\ UNCHANGED <<now, notice>>

\* the selections the tag picker reports, without "#"
PickerUniverse == { << >>, << <<"b">> >> }

\* the tag picker's onChange: level.tags = tagsNoHash.map(normalizeTag)
EditLevelTags ==
    /\ pc \in {"done", "nofiles"}
    /\ Len(history) < MaxBuilds
    /\ settings.views # << >>
    /\ \E idx \in 1..Len(getActiveViewCfg(settings).levels), tagsNoHash \in PickerUniverse :
          LET cfg == getActiveViewCfg(settings)
              tagged == [k \in 1..Len(tagsNoHash) |-> normalizeTag(tagsNoHash[k])]
          IN settings' = writeLevels(settings, cfg.levelsObj,
                                     [cfg.levels EXCEPT ![idx].tags = tagged])
    /\ SaveSettings
    /\ UNCHANGED <<now, notice>>

\* Add View with levels: cfg.levels, the active view's own array
AddView_SharedLevels ==
    /\ pc \in {"done", "nofiles"}
    /\ settings.views # << >>
    /\ Len(settings.views) < MaxViews
    /\ \E m \in PromptUniverse, t \in 1..MaxClock :
          IF Accepted(m)
          THEN /\ now' = t
               /\ settings' = [settings EXCEPT !.views =
                                  Append(@, [id |-> ViewId(t), name |-> trim(m[1]),
                                             levels |-> getActiveViewCfg(settings).levels,
                                             levelsObj |-> getActiveViewCfg(settings).levelsObj])]
               /\ SaveSettings
               /\ UNCHANGED notice
          ELSE UNCHANGED vars

\* addViewBtn.onclick: the new view's id is made of the wall clock, which the
\* code does not control: Date.now() may return a value it returned before.
\* JSON.parse(JSON.stringify(cfg.levels)) gives the view an array of its own
\* with the same names and tags.
AddView ==
    /\ pc \in {"done", "nofiles"}
    /\ settings.views # << >>
    /\ Len(settings.views) < MaxViews
    /\ \E m \in PromptUniverse, t \in 1..MaxClock :
          IF Accepted(m)
          THEN /\ now' = t
               /\ settings' = [settings EXCEPT !.views =
                                  Append(@, [id |-> ViewId(t), name |-> trim(m[1]),
                                             levels |-> getActiveViewCfg(settings).levels,
                                             levelsObj |-> freshObj(settings)])]
               /\ SaveSettings
               /\ UNCHANGED notice
          ELSE UNCHANGED vars

\* editBtn.onclick of a view's row
RenameView ==
    /\ pc \in {"done", "nofiles"}
    /\ settings.views # << >>
    /\ \E i \in 1..Len(settings.views), m \in PromptUniverse :
          IF Accepted(m)
          THEN /\ settings' = [settings EXCEPT !.views[i].name = trim(m[1])]
               /\ SaveSettings
               /\ UNCHANGED <<now, notice>>
          ELSE UNCHANGED vars

\* delBtn.onclick of a view's row.  With one view it shows a Notice and
\* returns.  Otherwise it filters the views by the row's id; when no view is
\* left, views[0].id or the render that follows throws a TypeError, and
\* nothing is saved or rendered.
DeleteView ==
    /\ pc \in {"done", "nofiles"}
    /\ settings.views # << >>
    /\ \E i \in 1..Len(settings.views) :
          LET view == settings.views[i]
              Keep(v) == v.id # view.id
              kept == SelectSeq(settings.views, Keep)
          IN IF Len(settings.views) = 1
             THEN /\ notice' = "Cannot delete the last view"
                  /\ UNCHANGED <<buildVars, call, history, settings, now>>
             ELSE IF kept = << >>
             THEN /\ settings' = [settings EXCEPT !.views = kept]
                  /\ UNCHANGED <<buildVars, call, history, now, notice>>
             ELSE /\ settings' = [views |-> kept,
                                  activeViewId |-> IF settings.activeViewId = view.id
                                                   THEN kept[1].id ELSE settings.activeViewId]
                  /\ SaveSettings
                  /\ UNCHANGED <<now, notice>>

NextSettings == Next \/ AddLevel \/ AddView \/ RenameView \/ DeleteView \/ SwitchView

SpecSettings == InitSettings /\ [][NextSettings]_vars

\* the level handlers next to Add View and the view menu
NextLevels ==
    Next \/ AddLevel \/ RemoveLevel \/ EditLevelName \/ EditLevelTags \/ AddView \/ SwitchView

\* the panel is opened with the default view as data.json has it: with no
\* level, or with one level saved earlier
InitLevels ==
    /\ allFiles \in { {}, {PathN} }
    /\ mdFiles = allFiles \cap MarkdownUniverse
    /\ tagCache = [f \in mdFiles |-> {TagB}]
    /\ settings \in {DEFAULT_SETTINGS, SettingsOf(<<LevelA>>)}
    /\ levels = getActiveViewCfg(settings).levels
    /\ pc = "idle"
    /\ fileTags = << >>
    /\ matched = {}
    /\ tagsRoot = NoTree
    /\ folderRoot = NoTree
    /\ lv = 0
    /\ pending = {}
    /\ call = IdleCall
    /\ history = << >>
    /\ now = 0
    /\ notice = ""

SpecLevels == InitLevels /\ [][NextLevels]_vars

--------------------------------------------------------------------------

(* collectTagsForFile on its own: one call on one file's cache *)

MaxFmTags == 2

\* cache.tags: absent, or the inline tags Obsidian found in the note
InlineUniverse == { JsUndefined, JsArray(<<TagA>>), JsArray(<<TagA, TagAB>>) }

\* elements of a frontmatter tags list
FmElementUniverse ==
    { JsString(<<"b">>), JsString(<<"#", "a">>), JsString(<< >>), JsNumber(7), JsNull }

\* the frontmatter tags field
FmTagsUniverse ==
    { JsUndefined, JsNull, JsObject, JsNumber(7),
      JsString(<< >>), JsString(<<" ">>), JsString(<<"b">>), JsString(<<" ", "b", " ">>),
      JsString(<<"#", "a">>) }
    \cup { JsArray(a) : a \in SeqsUpTo(FmElementUniverse, MaxFmTags) }

CacheUniverse ==
    [tags : InlineUniverse,
     frontmatter : { [present |-> FALSE, tags |-> JsUndefined] }
                   \cup [present : {TRUE}, tags : FmTagsUniverse]]

InitCollect ==
    /\ call \in [state : {"ready"}, cache : CacheUniverse, result : {{}}]
    /\ allFiles = {}
    /\ mdFiles = {}
    /\ tagCache = << >>
    /\ levels = << >>
    /\ pc = "off"
    /\ fileTags = << >>
    /\ matched = {}
    /\ tagsRoot = NoTree
    /\ folderRoot = NoTree
    /\ lv = 0
    /\ pending = {}
    /\ history = << >>
    /\ settings = DEFAULT_SETTINGS
    /\ now = 0
    /\ notice = ""

CallCollectTagsForFile ==
    /\ call.state = "ready"
    /\ call' = [call EXCEPT !.state = "collected",
                            !.result = collectTagsForFile(call.cache)]
    /\ UNCHANGED <<buildVars, history, viewVars>>

NextCollect == CallCollectTagsForFile

SpecCollect == InitCollect /\ [][NextCollect]_vars

--------------------------------------------------------------------------

(* renderTree on a vault of up to three tagged notes and a "Project" level *)

PathA == <<"A", ".", "m", "d">>

PathB == <<"B", ".", "m", "d">>

PathC == <<"C", ".", "m", "d">>

TagProject == <<"#", "p", "r", "o", "j", "e", "c", "t">>

TagProjectWork == TagProject \o <<"/", "w", "o", "r", "k">>

TagProjectHome == TagProject \o <<"/", "h", "o", "m", "e">>

LevelProject == [name |-> "Project", tags |-> <<TagProject>>]

InitScenario ==
    /\ allFiles \in SUBSET {PathA, PathB, PathC}
    /\ mdFiles = allFiles
    /\ tagCache \in [mdFiles -> { {}, {TagProjectWork}, {TagProjectHome} }]
    /\ levels \in SeqsUpTo({LevelProject}, MaxLevels)
    /\ pc = "idle"
    /\ fileTags = << >>
    /\ matched = {}
    /\ tagsRoot = NoTree
    /\ folderRoot = NoTree
    /\ lv = 0
    /\ pending = {}
    /\ call = IdleCall
    /\ history = << >>
    /\ settings = SettingsOf(levels)
    /\ now = 0
    /\ notice = ""

SpecScenario == InitScenario /\ [][Next]_vars

--------------------------------------------------------------------------

(* The panel over a changing vault: files come and go between render       *)
(* passes, and the view menu switches between two views                     *)

\* the vaults the panel is opened on and the vault changes lead to
VaultUniverse ==
    { [files |-> {}, cache |-> << >>],
      [files |-> {PathN}, cache |-> [f \in {PathN} |-> {TagB}]],
      [files |-> {PathN, PathX}, cache |-> [f \in {PathN} |-> {TagB}]] }

InitLifecycle ==
    /\ \E v \in VaultUniverse :
          /\ allFiles = v.files
          /\ tagCache = v.cache
    /\ mdFiles = allFiles \cap MarkdownUniverse
    /\ settings = [views |-> << [id |-> DefaultId, name |-> DefaultName, levels |-> << >>,
                                 levelsObj |-> 0],
                                [id |-> SecondId, name |-> <<"V">>, levels |-> <<LevelB>>,
                                 levelsObj |-> 1] >>,
                   activeViewId |-> DefaultId]
    /\ levels = getActiveViewCfg(settings).levels
    /\ pc = "idle"
    /\ fileTags = << >>
    /\ matched = {}
    /\ tagsRoot = NoTree
    /\ folderRoot = NoTree
    /\ lv = 0
    /\ pending = {}
    /\ call = IdleCall
    /\ history = << >>
    /\ now = 1
    /\ notice = ""

\* a file is created or deleted in the vault while no handler of the plugin
\* runs.  The plugin registers no vault or metadata-cache event
\* (its only registerEvent calls are for layout-change and file-open), so
\* nothing of the panel changes.
VaultChange ==
    /\ pc \in {"done", "nofiles"}
    /\ \E v \in VaultUniverse :
          /\ v.files # allFiles
          /\ allFiles' = v.files
          /\ tagCache' = v.cache
    /\ mdFiles' = allFiles' \cap MarkdownUniverse
    /\ UNCHANGED <<levels, pc, fileTags, matched, tagsRoot, folderRoot, lv, pending,
                   call, history, viewVars>>

NextLifecycle == Next \/ SwitchView \/ VaultChange

SpecLifecycle == InitLifecycle /\ [][NextLifecycle]_vars

--------------------------------------------------------------------------

(* Vocabulary of the claims, stated without the operators of the model *)

\* tag t is pattern p followed by "/" (and possibly more text)
ClaimPrefixed(t, p) ==
    /\ Len(t) > Len(p)
    /\ t[Len(p) + 1] = "/"
    /\ \A i \in 1..Len(p) : t[i] = p[i]

\* tag set T matches pattern p
ClaimMatches(T, p) == p \in T \/ \E t \in T : ClaimPrefixed(t, p)

\* the patterns of list ps that tag set T matches, by position
ClaimMatching(T, ps) == { j \in 1..Len(ps) : ClaimMatches(T, ps[j]) }

\* the files whose tags match some pattern of some level
ClaimMatched ==
    { f \in mdFiles : \E i \in 1..Len(levels) : ClaimMatching(tagCache[f], levels[i].tags) # {} }

\* the display form of a pattern: its marker removed
ClaimDisplay(p) == IF Len(p) > 0 /\ p[1] = "#" THEN Tail(p) ELSE p

\* the label of the bucket of level i for tag set T
ClaimLabel(T, ps) ==
    IF ClaimMatching(T, ps) = {} THEN OthersKey
    ELSE ClaimDisplay(ps[CHOOSE j \in ClaimMatching(T, ps) :
                            \A k \in ClaimMatching(T, ps) : j <= k])

\* the nodes of a tree that hold file f
Holders(tree, f) == { q \in DOMAIN tree : f \in tree[q].files }

\* the files held in the subtree of node p
Under(tree, p) ==
    UNION { tree[q].files : q \in { r \in DOMAIN tree :
                                      Len(r) >= Len(p) /\ SubSeq(r, 1, Len(p)) = p } }

SlashAt(s) == { i \in 1..Len(s) : s[i] = "/" }

NthSlash(s, k) ==
    CHOOSE i \in SlashAt(s) : Cardinality({ j \in SlashAt(s) : j < i }) = k - 1

\* the folder segments of a path: the text before each "/"
ClaimFolders(s) ==
    [k \in 1..Cardinality(SlashAt(s)) |->
        SubSeq(s, IF k = 1 THEN 1 ELSE NthSlash(s, k - 1) + 1, NthSlash(s, k) - 1)]

--------------------------------------------------------------------------
(* Claims *)

\* C1: after a build every file of allFiles is held by exactly one node of
\* exactly one of the two trees: never both, never neither, never two nodes.
C1_Partition ==
    pc = "done" =>
        \A f \in allFiles :
            Cardinality(Holders(tagsRoot, f)) + Cardinality(Holders(folderRoot, f)) = 1

C1_Witness ==
    /\ pc = "done"
    /\ \E f \in allFiles, g \in allFiles :
          /\ Holders(tagsRoot, f) # {}
          /\ Holders(folderRoot, g) # {}
          /\ Len(levels) = 2

\* C2: after a build countFiles of the Tag Tree root is the number of matched
\* files, countFiles of the Folder Tree root is the number of unmatched files,
\* and the two sum to the number of files.
C2_CountConsistency ==
    pc = "done" =>
        /\ countFiles(tagsRoot, << >>) = Cardinality(ClaimMatched)
        /\ countFiles(folderRoot, << >>) = Cardinality(allFiles \ ClaimMatched)
        /\ countFiles(tagsRoot, << >>) + countFiles(folderRoot, << >>)
              = Cardinality(allFiles)

C2_Witness ==
    /\ pc = "done"
    /\ countFiles(tagsRoot, << >>) = 2
    /\ countFiles(folderRoot, << >>) = 0
    /\ \E p \in DOMAIN tagsRoot : Len(p) = 2

\* C3: a file is in the Tag Tree exactly when its tags match a pattern of at
\* least one level; a file matching no level is in the Folder Tree; when no
\* file matches, the Tag Tree root has no children.
C3_MatchSelection ==
    pc = "done" =>
        /\ \A f \in allFiles :
              /\ (Holders(tagsRoot, f) # {}) <=> (f \in ClaimMatched)
              /\ (f \notin ClaimMatched) => (Holders(folderRoot, f) # {})
        /\ (ClaimMatched = {}) =>
              /\ Children(tagsRoot, << >>) = {}
              /\ \A f \in allFiles : Holders(folderRoot, f) # {}

\* a tagged file that matches the second level only, next to a tagged file
\* that matches no level
C3_Witness ==
    /\ pc = "done"
    /\ Len(levels) = 2
    /\ \E f \in mdFiles, g \in mdFiles :
          /\ ClaimMatching(tagCache[f], levels[1].tags) = {}
          /\ ClaimMatching(tagCache[f], levels[2].tags) # {}
          /\ Holders(tagsRoot, f) # {}
          /\ tagCache[g] # {}
          /\ g \notin ClaimMatched
          /\ Holders(folderRoot, g) # {}

\* C4 as stated: a call of tagMatchesAny finds a pattern exactly when some
\* pattern p of the list is in the tag set, or some tag is p followed by "/"
\* and by at least one more character.
C4_PrefixMatch_AsStated ==
    call.state = "returned" =>
        ((call.result # Null) <=>
            \E j \in 1..Len(call.wanted) :
                \/ call.wanted[j] \in call.tagSet
                \/ \E t \in call.tagSet :
                      /\ ClaimPrefixed(t, call.wanted[j])
                      /\ Len(t) > Len(call.wanted[j]) + 1)

\* C4, amended: a call of tagMatchesAny finds a pattern exactly when some
\* pattern p of the list is in the tag set, or some tag begins with p followed
\* by "/" (whether or not text follows the separator).  {"#a/b"} matches "#a",
\* {"#ab"} does not, letter case is not folded, and an empty pattern list
\* matches nothing.
C4_PrefixMatch ==
    call.state = "returned" =>
        /\ (call.result # Null) <=> (ClaimMatching(call.tagSet, call.wanted) # {})
        /\ (call.tagSet = {TagAB} /\ call.wanted = <<TagA>>) => call.result = <<TagA>>
        /\ (call.tagSet = {TagAb} /\ call.wanted = <<TagA>>) => call.result = Null
        /\ (call.tagSet = {TagUpperA} /\ call.wanted = <<TagA>>) => call.result = Null
        /\ (call.wanted = << >>) => call.result = Null

C4_Witness ==
    /\ call.state = "returned"
    /\ call.tagSet = {TagAB, TagAb}
    /\ call.wanted = <<TagUpperA, TagA>>
    /\ call.result = <<TagA>>

\* C5: when several patterns of one level match a file's tags, every node
\* holding the file lies in the bucket of the pattern that comes first in the
\* level's pattern list, and in no other bucket of that level.
C5_FirstPatternWins ==
    pc = "done" =>
        \A f \in matched : \A i \in 1..Len(levels) :
            LET hits == ClaimMatching(tagCache[f], levels[i].tags)
                first == CHOOSE j \in hits : \A k \in hits : j <= k
            IN Cardinality(hits) >= 2 =>
                  /\ Holders(tagsRoot, f) # {}
                  /\ \A q \in Holders(tagsRoot, f) :
                        Len(q) >= i /\ q[i] = ClaimDisplay(levels[i].tags[first])

\* a file tagged #a/b and #b under the pattern list (#b, #a) is in bucket "b"
C5_Witness ==
    /\ pc = "done"
    /\ \E f \in matched : \E i \in 1..Len(levels) :
          /\ tagCache[f] = {TagAB, TagB}
          /\ levels[i].tags = <<TagB, TagA>>
          /\ \E q \in Holders(tagsRoot, f) : q[i] = <<"b">>

\* C6: after a build with levels L0..L(n-1) every matched file is held by
\* exactly the Tag Tree node whose path is (b0, ..., b(n-1)), bi being the
\* display form of the first pattern of Li matching the file's tags, or
\* "Others" when none matches.
C6_Placement ==
    pc = "done" =>
        \A f \in ClaimMatched :
            Holders(tagsRoot, f) =
                { [i \in 1..Len(levels) |-> ClaimLabel(tagCache[f], levels[i].tags)] }

\* two files that share the bucket of level 0 and part at level 1, one of
\* them into "Others"
C6_Witness ==
    /\ pc = "done"
    /\ Len(levels) = 2
    /\ \E f \in matched, g \in matched :
          /\ Holders(tagsRoot, f) = { << <<"a">>, <<"b">> >> }
          /\ Holders(tagsRoot, g) = { << <<"a">>, OthersKey >> }

\* C7 as stated: in both trees a node with at least one child holds no files.
C7_TerminalBucket_AsStated ==
    pc = "done" =>
        /\ \A p \in DOMAIN tagsRoot :
              Children(tagsRoot, p) # {} => tagsRoot[p].files = {}
        /\ \A p \in DOMAIN folderRoot :
              Children(folderRoot, p) # {} => folderRoot[p].files = {}

\* C7, amended: in the Tag Tree a node with at least one child holds no files
\* (a Folder Tree node may hold files next to its child folders).
C7_TerminalBucket ==
    \A p \in DOMAIN tagsRoot :
        Children(tagsRoot, p) # {} => tagsRoot[p].files = {}

C7_Witness ==
    /\ pc = "done"
    /\ \E p \in DOMAIN tagsRoot :
          /\ Len(p) = 1
          /\ Cardinality(Children(tagsRoot, p)) = 2
          /\ \A q \in Children(tagsRoot, p) : tagsRoot[q].files # {}

\* C8: under every node the child labelled "Others" holds only files whose
\* tags match no pattern of that child's level.
C8_OthersDistinct ==
    pc = "done" =>
        \A q \in DOMAIN tagsRoot :
            (Len(q) >= 1 /\ q[Len(q)] = OthersKey) =>
                \A f \in Under(tagsRoot, q) :
                    ClaimMatching(tagCache[f], levels[Len(q)].tags) = {}

\* C9: a level with an empty pattern list sends every file passing through it
\* to the "Others" bucket of its node, so each node split by that level gets
\* exactly one child, and the build completes.
C9_EmptyPatternLevel ==
    pc = "done" =>
        \A i \in 1..Len(levels) :
            levels[i].tags = << >> =>
                /\ \A f \in ClaimMatched :
                      /\ Holders(tagsRoot, f) # {}
                      /\ \A q \in Holders(tagsRoot, f) : Len(q) >= i /\ q[i] = OthersKey
                /\ \A p \in DOMAIN tagsRoot :
                      Len(p) = i - 1 =>
                          Children(tagsRoot, p) =
                              IF Under(tagsRoot, p) = {} THEN {}
                              ELSE { Append(p, OthersKey) }

\* two files in different buckets of level 0 pass through an empty level 1
C9_Witness ==
    /\ pc = "done"
    /\ Len(levels) = 2
    /\ levels[2].tags = << >>
    /\ Cardinality(Children(tagsRoot, << >>)) = 2
    /\ \A p \in Children(tagsRoot, << >>) :
          /\ Children(tagsRoot, p) = { Append(p, OthersKey) }
          /\ tagsRoot[Append(p, OthersKey)].files # {}

\* C10: the Folder Tree is a trie of path segments: every file outside the
\* matched set is held by exactly the node reached from folderRoot through the
\* folder segments of its path (folderRoot itself when the path has no "/"),
\* matched files are not in it, and it has no other nodes.
C10_FolderTrie ==
    pc = "done" =>
        /\ \A f \in allFiles \ ClaimMatched :
              Holders(folderRoot, f) = { ClaimFolders(f) }
        /\ \A f \in ClaimMatched : Holders(folderRoot, f) = {}
        /\ DOMAIN folderRoot =
              { << >> } \cup
              UNION { { SubSeq(ClaimFolders(f), 1, k) : k \in 0..Cardinality(SlashAt(f)) } :
                      f \in allFiles \ ClaimMatched }
        /\ \A q \in DOMAIN folderRoot :
              q # << >> => folderRoot[q].name = q[Len(q)]
        /\ \A f \in allFiles \ ClaimMatched :
              SlashAt(f) = {} => f \in folderRoot[<< >>].files

C10_Witness ==
    /\ pc = "done"
    /\ Holders(folderRoot, PathDEK) = { << <<"d">>, <<"e">> >> }
    /\ << <<"d">> >> \in DOMAIN folderRoot
    /\ \E f \in mdFiles : tagCache[f] # {} /\ Holders(folderRoot, f) = { << >> }

\* C11: getSortedEntries returns a permutation of the Map's entries; in mode
\* "alpha" the labels ascend, in "alpha-desc" they descend, and in "count" the
\* aggregate counts descend with equal counts in ascending label order.
\* Label order is the collation order of localeCompare.
ClaimLabelBefore(x, y) == localeCompare(x, y) < 0

ClaimCount(e) == Cardinality(UNION { e[2][q].files : q \in DOMAIN e[2] })

C11_SortContract ==
    call.state = "sorted" =>
        LET r == call.result
            m == call.map
        IN /\ Len(r) = Len(m)
           /\ { r[i] : i \in 1..Len(r) } = { m[i] : i \in 1..Len(m) }
           /\ \A i, j \in 1..Len(r) : i < j =>
                 CASE call.mode = "alpha" -> ClaimLabelBefore(r[i][1], r[j][1])
                   [] call.mode = "alpha-desc" -> ClaimLabelBefore(r[j][1], r[i][1])
                   [] call.mode = "count" ->
                        \/ ClaimCount(r[i]) > ClaimCount(r[j])
                        \/ /\ ClaimCount(r[i]) = ClaimCount(r[j])
                           /\ ClaimLabelBefore(r[i][1], r[j][1])

\* a count-mode call whose Map holds two children of equal aggregate count,
\* inserted with the later label first, and a third child of another count
C11_Witness ==
    /\ call.state = "sorted"
    /\ call.mode = "count"
    /\ Len(call.map) = 3
    /\ call.map[1] = << <<"a", "b">>, NestedNode >>
    /\ call.map[2][1] = <<"A", "a">>
    /\ ClaimCount(call.map[2]) = 2
    /\ ClaimCount(call.map[3]) = 1
    /\ call.result[1] = call.map[2]
    /\ call.result[2] = call.map[1]

\* C12: two render passes given the same files, the same tag sets and the
\* same levels build structurally equal trees (the same node paths, hence
\* the same child labels at every node, and the same own files at every
\* node, the empty nodes included), whatever was built between them.
ClaimSameTree(t, u) ==
    /\ DOMAIN t = DOMAIN u
    /\ \A q \in DOMAIN t : t[q].files = u[q].files

C12_IdempotentRebuild ==
    \A i, j \in 1..Len(history) :
        ( /\ history[i].files = history[j].files
          /\ history[i].cache = history[j].cache
          /\ history[i].levels = history[j].levels )
        => /\ ClaimSameTree(history[i].tags, history[j].tags)
           /\ ClaimSameTree(history[i].folder, history[j].folder)

\* three passes: the first and the third with the same two levels and a pass
\* with other levels between them; both trees of the first pass have a
\* non-root node
C12_Witness ==
    /\ Len(history) = 3
    /\ history[1].levels = history[3].levels
    /\ history[2].levels # history[1].levels
    /\ Len(history[1].levels) = 2
    /\ \E q \in DOMAIN history[1].tags : Len(q) = 2
    /\ \E q \in DOMAIN history[1].folder : Len(q) = 1
    /\ history[3].tags = history[1].tags
    /\ history[2].tags # history[1].tags

\* C13: normalizeTag applied twice gives what it gives applied once; an empty
\* or white-space-only string normalizes to the empty string, which
\* parseTagsInput leaves out of its result; any other string normalizes to
\* its trimmed form, with "#" put in front unless it already starts with "#".
ClaimBlank(x) == \A i \in 1..Len(x) : x[i] \in {" ", "\t"}

ClaimTrimmed(x) ==
    LET inked == { i \in 1..Len(x) : x[i] \notin {" ", "\t"} }
        first == CHOOSE i \in inked : \A j \in inked : i <= j
        last == CHOOSE i \in inked : \A j \in inked : j <= i
    IN IF inked = {} THEN << >> ELSE [k \in 1..(last - first + 1) |-> x[first + k - 1]]

C13_NormalizeIdempotent ==
    LET x == call.input
    IN /\ call.state = "normalized" =>
             IF ClaimBlank(x) THEN call.once = << >>
             ELSE IF ClaimTrimmed(x)[1] = "#" THEN call.once = ClaimTrimmed(x)
             ELSE call.once = <<"#">> \o ClaimTrimmed(x)
       /\ call.state = "renormalized" => call.twice = call.once
       /\ call.state = "parsed" /\ ClaimBlank(x) => call.parsed = << >>

\* " a " was normalized to "#a" and normalized again
C13_Witness ==
    /\ call.state = "renormalized"
    /\ call.input = <<" ", "a", " ">>
    /\ call.once = <<"#", "a">>
    /\ call.twice = <<"#", "a">>

\* C14: collectTagsForFile returns exactly the normalized forms of the file's
\* inline and frontmatter tag strings that are not blank, so every element
\* of the result is canonical (non-empty, starting with "#") and a blank tag
\* string contributes no element.
ClaimNormalize(x) ==
    IF ClaimTrimmed(x)[1] = "#" THEN ClaimTrimmed(x) ELSE <<"#">> \o ClaimTrimmed(x)

ClaimInline(cache) ==
    IF cache.tags.t = "array" THEN { cache.tags.v[i] : i \in 1..Len(cache.tags.v) } ELSE {}

ClaimFrontmatterStrings(cache) ==
    LET field == cache.frontmatter.tags
    IN IF ~cache.frontmatter.present THEN {}
       ELSE IF field.t = "string" THEN { field.v }
       ELSE IF field.t = "array"
       THEN { field.v[i].v : i \in { k \in 1..Len(field.v) : field.v[k].t = "string" } }
       ELSE {}

ClaimAllStrings(cache) ==
    ~cache.frontmatter.present
    \/ cache.frontmatter.tags.t \in {"undefined", "string"}
    \/ /\ cache.frontmatter.tags.t = "array"
       /\ \A i \in 1..Len(cache.frontmatter.tags.v) : cache.frontmatter.tags.v[i].t = "string"

C14_ClassifierOutput ==
    call.state = "collected" =>
        /\ \A x \in call.result : x # << >> /\ x[1] = "#"
        /\ ClaimAllStrings(call.cache) =>
              call.result =
                 { ClaimNormalize(t) :
                     t \in { u \in ClaimInline(call.cache) \cup ClaimFrontmatterStrings(call.cache) :
                               ~ClaimBlank(u) } }

\* C15 as stated: with frontmatter absent, without a tags field, or with a
\* tags field that is neither a string nor a sequence of strings (a sequence
\* with a non-string element included), the result is the inline tags only.
ClaimMalformed(cache) ==
    \/ ~cache.frontmatter.present
    \/ cache.frontmatter.tags.t \notin {"string", "array"}
    \/ /\ cache.frontmatter.tags.t = "array"
       /\ \E i \in 1..Len(cache.frontmatter.tags.v) : cache.frontmatter.tags.v[i].t # "string"

C15_MalformedFrontmatter_AsStated ==
    call.state = "collected" /\ ClaimMalformed(call.cache)
        => call.result = ClaimInline(call.cache)

\* C15: with frontmatter absent, without a tags field, or with a tags field
\* that is neither a string nor a sequence, the result is the inline tags
\* only; of a sequence every element counts, string or not: unless its
\* string conversion is blank, it contributes the normalized form of that
\* conversion.
ClaimStringOf(e) ==
    CASE e.t = "string" -> e.v
      [] e.t = "number" /\ e.v[1] = 7 -> <<"7">>
      [] e.t = "number" /\ e.v[1] = 8 -> <<"8">>
      [] e.t = "null" -> <<"n", "u", "l", "l">>

C15_MalformedFrontmatter ==
    call.state = "collected" =>
        LET field == call.cache.frontmatter.tags
        IN /\ ( ~call.cache.frontmatter.present \/ field.t \notin {"string", "array"} )
                 => call.result = ClaimInline(call.cache)
           /\ ( call.cache.frontmatter.present /\ field.t = "array" )
                 => call.result \ { << >> } =
                       ClaimInline(call.cache)
                       \cup { ClaimNormalize(ClaimStringOf(field.v[i])) :
                                i \in { k \in 1..Len(field.v) :
                                          ~ClaimBlank(ClaimStringOf(field.v[k])) } }

\* a note with the inline tag #a and the frontmatter list [7, b]
C15_Witness ==
    /\ call.state = "collected"
    /\ call.cache.tags = JsArray(<<TagA>>)
    /\ call.cache.frontmatter.present
    /\ call.cache.frontmatter.tags = JsArray(<<JsNumber(7), JsString(<<"b">>)>>)
    /\ call.result = { TagA, <<"#", "7">>, TagB }

\* C16: with A.md tagged #project/work, B.md tagged #project/home, C.md
\* untagged and the single level Project [#project], the Tag Tree root has
\* exactly one child, labelled "project", holding exactly A.md and B.md; the
\* Folder Tree holds exactly C.md, at the vault root where it lies; the
\* counts of the two roots are 2 and 1.
ClaimProjectVault ==
    /\ allFiles = {PathA, PathB, PathC}
    /\ tagCache = [f \in allFiles |-> IF f = PathA THEN {TagProjectWork}
                                      ELSE IF f = PathB THEN {TagProjectHome} ELSE {}]
    /\ levels = << [name |-> "Project", tags |-> << TagProject >>] >>

ClaimProjectLabel == <<"p", "r", "o", "j", "e", "c", "t">>

C16_ProjectScenario ==
    pc = "done" /\ ClaimProjectVault =>
        /\ DOMAIN tagsRoot = { << >>, << ClaimProjectLabel >> }
        /\ tagsRoot[<< ClaimProjectLabel >>].name = ClaimProjectLabel
        /\ tagsRoot[<< ClaimProjectLabel >>].files = {PathA, PathB}
        /\ tagsRoot[<< >>].files = {}
        /\ DOMAIN folderRoot = { << >> }
        /\ folderRoot[<< >>].files = {PathC}
        /\ countFiles(tagsRoot, << >>) = 2
        /\ countFiles(folderRoot, << >>) = 1

\* the three notes were rendered under the Project level
C16_Witness ==
    /\ pc = "done"
    /\ ClaimProjectVault
    /\ Holders(tagsRoot, PathA) = { << ClaimProjectLabel >> }
    /\ Holders(tagsRoot, PathB) = { << ClaimProjectLabel >> }
    /\ Holders(folderRoot, PathC) = { << >> }

\* C17: for two levels with disjoint pattern sets, the pass with order
\* (L0, L1) and the pass with order (L1, L0) put the same files in the Tag
\* Tree and the same files in the Folder Tree, and every matched file's bucket
\* path in the one pass is the reverse of its bucket path in the other.
ClaimReverse(q) == [k \in 1..Len(q) |-> q[Len(q) + 1 - k]]

ClaimFilesOf(tree) == UNION { tree[q].files : q \in DOMAIN tree }

ClaimPatterns(level) == { level.tags[k] : k \in 1..Len(level.tags) }

C17_LevelSwap ==
    \A i, j \in 1..Len(history) :
        ( /\ Len(history[i].levels) = 2
          /\ history[j].levels = ClaimReverse(history[i].levels)
          /\ ClaimPatterns(history[i].levels[1]) \cap ClaimPatterns(history[i].levels[2]) = {} )
        => /\ ClaimFilesOf(history[i].tags) = ClaimFilesOf(history[j].tags)
           /\ ClaimFilesOf(history[i].folder) = ClaimFilesOf(history[j].folder)
           /\ \A f \in ClaimFilesOf(history[i].tags) :
                 Holders(history[j].tags, f) =
                    { ClaimReverse(q) : q \in Holders(history[i].tags, f) }

\* a pass with levels (A, B) and a pass with levels (B, A): file n, tagged
\* #a/b and #b, sits at a/b in the one and at b/a in the other; file d/m,
\* tagged #b only, at Others/b and at b/Others
C17_Witness ==
    /\ Len(history) >= 2
    /\ history[1].levels = <<LevelA, LevelB>>
    /\ history[2].levels = <<LevelB, LevelA>>
    /\ Holders(history[1].tags, PathN) = { << <<"a">>, <<"b">> >> }
    /\ Holders(history[2].tags, PathN) = { << <<"b">>, <<"a">> >> }
    /\ Holders(history[1].tags, PathDM) = { << OthersKey, <<"b">> >> }
    /\ Holders(history[2].tags, PathDM) = { << <<"b">>, OthersKey >> }

\* C18: after any sequence of Add View, Delete, Edit and view-menu clicks from
\* the default settings, settings.views is non-empty.
C18_ViewsNonEmpty == settings.views # << >>

\* C19 as stated: with allFiles empty the build yields a Tag Tree root and a
\* Folder Tree root, each without children and without files (count 0).
ClaimEmptyTree(tree) ==
    /\ DOMAIN tree = { << >> }
    /\ tree[<< >>].files = {}
    /\ countFiles(tree, << >>) = 0

C19_EmptyCollection_AsStated ==
    allFiles = {} /\ pc \in {"done", "nofiles"} =>
        ClaimEmptyTree(tagsRoot) /\ ClaimEmptyTree(folderRoot)

\* C19: with allFiles empty the render pass does not fail: it ends at the
\* "No files." message, before either tree is constructed, so there is no
\* Tag Tree root and no Folder Tree root.
C19_EmptyCollection ==
    allFiles = {} /\ pc # "idle" =>
        /\ pc = "nofiles"
        /\ tagsRoot = NoTree
        /\ folderRoot = NoTree

\* an empty vault rendered under a view with two levels
C19_Witness ==
    /\ allFiles = {}
    /\ pc = "nofiles"
    /\ Len(levels) = 2
    /\ Len(history) = 1
    /\ history[1].tags = NoTree

\* C20: every node of the Tag Tree other than the root has an aggregate count
\* of at least 1, and it exists only because its parent's split put a file
\* in it: some file below it has the node's label as its label for the level
\* that made the node.
C20_NoSpeculativeBuckets ==
    \A q \in DOMAIN tagsRoot :
        q # << >> =>
            /\ countFiles(tagsRoot, q) >= 1
            /\ \E f \in Under(tagsRoot, q) :
                  ClaimLabel(tagCache[f], levels[Len(q)].tags) = q[Len(q)]

\* built under a level with patterns #a and #b and a second level, with files
\* for #b only: the root has the single child b, and no a and no Others
C20_Witness ==
    /\ pc = "done"
    /\ Len(levels) = 2
    /\ levels[1].tags = <<TagA, TagB>>
    /\ matched # {}
    /\ Children(tagsRoot, << >>) = { << <<"b">> >> }
    /\ Cardinality(DOMAIN tagsRoot) = 3

\* C21: once propagateLevel has run for the first k levels, the files
\* reachable from tagsRoot are exactly the matched files, every node that
\* holds files is at depth exactly k and has no children, and no node lies
\* deeper than k (a call does not split the buckets it has just made).
C21_DepthAndConservation ==
    tagsRoot # NoTree =>
        /\ Under(tagsRoot, << >>) = matched
        /\ \A q \in DOMAIN tagsRoot :
              /\ Len(q) <= lv
              /\ tagsRoot[q].files # {} =>
                    /\ Len(q) = lv
                    /\ Children(tagsRoot, q) = {}

\* two levels applied to two matched files that ended in different buckets
\* of depth two
C21_Witness ==
    /\ pc = "levels"
    /\ lv = 2
    /\ Cardinality(matched) = 2
    /\ Cardinality({ q \in DOMAIN tagsRoot : Len(q) = 2 /\ tagsRoot[q].files # {} }) = 2
    /\ \A q \in DOMAIN tagsRoot : Len(q) < 2 => tagsRoot[q].files = {}

\* C22: after every change of the files, of the configuration or of the
\* active view the panel renders again, so that whenever no render pass is
\* running or due the trees on display are those of the current files, tags
\* and active view's levels: the Tag Tree holds the files that match a
\* level, the Folder Tree the other files, and "No files." shows only for an
\* empty vault.
C22_RecomputedOnEveryTrigger ==
    /\ pc = "done" =>
          /\ levels = getActiveViewCfg(settings).levels
          /\ ClaimFilesOf(tagsRoot) = ClaimMatched
          /\ ClaimFilesOf(folderRoot) = allFiles \ ClaimMatched
    /\ pc = "nofiles" => allFiles = {}

\* C23: after any sequence of Add View, Delete and view-menu clicks from the
\* default settings, activeViewId is the id of a view in settings.views and
\* getActiveViewCfg returns a view with that id.
C23_ActiveViewPresent ==
    /\ settings.views # << >>
    /\ \E i \in 1..Len(settings.views) : settings.views[i].id = settings.activeViewId
    /\ getActiveViewCfg(settings).id = settings.activeViewId

\* C24: Add View appends one view whose levels equal the active view's levels
\* at that moment and leaves the views there were and activeViewId as they
\* are; any other step (a level added, removed, renamed or retagged, a view
\* switched) leaves the levels of every view but the active one unchanged.
C24_AddViewCopiesLevels ==
    [][ LET old == settings.views
            new == settings'.views
        IN /\ Len(new) = Len(old) + 1 =>
                 /\ \A i \in 1..Len(old) : new[i] = old[i]
                 /\ new[Len(new)].levels = getActiveViewCfg(settings).levels
                 /\ settings'.activeViewId = settings.activeViewId
           /\ Len(new) = Len(old) =>
                 \A i \in 1..Len(old) :
                     i # activeIndex(settings) => new[i].levels = old[i].levels ]_vars

\* a view was added as a copy of a view with one level, and then the level
\* of the first view was renamed: the copy still has the level as it was
C24_Witness ==
    /\ Len(settings.views) = 2
    /\ settings.views[1].levels = <<[LevelA EXCEPT !.name = "X"]>>
    /\ settings.views[2].levels = <<LevelA>>
    /\ pc = "done"

====
